---- MODULE Spec2Model ----
(***************************************************************************)
(* Media types and media ranges of fault.internet.media (src/media.py):    *)
(* the Type triple with its containment relation and push/pop, the Range   *)
(* parser (Range.split, Range.from_bytes) and the negotiation scan         *)
(* Range.query.                                                            *)
(*                                                                         *)
(* Python str and bytes values are sequences of one-character strings,     *)
(* with short names standing for the usual ones (t/h for text/html).  A    *)
(* call that raises is a value [kind |-> "raise", ...]; None is            *)
(* [kind |-> "None"].                                                      *)
(***************************************************************************)
EXTENDS Integers, Sequences, FiniteSets, TLC

VARIABLES
    pc,         \* position of the running operation
    self,       \* receiver of Type.push / Type.pop
    arg,        \* argument of Type.push
    ret,        \* value returned (or exception raised) by push, pop, from_bytes, query
    ops,        \* the Types handed to Type.__contains__
    res,        \* results of the __contains__ evaluations over ops
    data,       \* token series Range.split iterates over
    l,          \* Range.from_bytes: the list l before l.sort
    range,      \* Range.query: the Range instance (self)
    available,  \* Range.query: *available
    xi,         \* Range.query: index of x in available
    ei,         \* Range.query: index of (q, mt) in self
    current,    \* Range.query: local current
    position,   \* Range.query: local position
    quality     \* Range.query: local quality

vars == <<pc, self, arg, ret, ops, res, data, l, range, available, xi, ei,
          current, position, quality>>

typeVars == <<self, arg>>
containsVars == <<ops, res>>
parseVars == <<data, l>>
queryVars == <<range, available, xi, ei, current, position, quality>>

----------------------------------------------------------------------------
(* Python values *)

None == [kind |-> "None"]

Raise(exc) == [kind |-> "raise", exc |-> exc]

Returned(v) == [kind |-> "return", value |-> v]

\* bool() of a frozenset: the empty set is false.
Truthy(v) == v # {}

\* x in (a, b): membership in a tuple literal.
InTuple(x, tup) == \E k \in 1..Len(tup) : tup[k] = x

Reverse(s) == [k \in 1..Len(s) |-> s[Len(s) + 1 - k]]

----------------------------------------------------------------------------
(* class Type(tuple) *)

STAR == <<"*">>

Type(cotype, subtype, parameters) ==
    [kind |-> "Type", cotype |-> cotype, subtype |-> subtype, parameters |-> parameters]

\* Type.__contains__ testing issuperset where the code tests issubset.
Contains_Superset(slf, mtype) ==
    /\ InTuple(slf.cotype, <<STAR, mtype.cotype>>)
    /\ InTuple(slf.subtype, <<STAR, mtype.subtype>>)
    /\ (~Truthy(slf.parameters)
          \/ (Truthy(mtype.parameters) /\ slf.parameters \subseteq mtype.parameters))

\* Type.__contains__ without the test that mtype has parameters at all.
Contains_NoEmptyCheck(slf, mtype) ==
    /\ InTuple(slf.cotype, <<STAR, mtype.cotype>>)
    /\ InTuple(slf.subtype, <<STAR, mtype.subtype>>)
    /\ (~Truthy(slf.parameters) \/ mtype.parameters \subseteq slf.parameters)

\* Type.__contains__(self, mtype)
Contains(slf, mtype) ==
    IF InTuple(slf.cotype, <<STAR, mtype.cotype>>)
    THEN IF InTuple(slf.subtype, <<STAR, mtype.subtype>>)
         THEN IF ~Truthy(slf.parameters)
                 \/ (Truthy(mtype.parameters) /\ mtype.parameters \subseteq slf.parameters)
              THEN TRUE
              ELSE FALSE
         ELSE FALSE
    ELSE FALSE

any_type == Type(STAR, STAR, {})

\* The tuple and list objects that Type.push and Type.pop put together.
Tuple(items) == [kind |-> "tuple", items |-> items]
List(items) == [kind |-> "list", items |-> items]

\* tuple.__add__: only a tuple can be concatenated to a tuple.
TupleAdd(t, other) ==
    IF other.kind = "tuple"
    THEN Returned(Tuple(t.items \o other.items))
    ELSE Raise("TypeError")

RECURSIVE JoinStrings(_, _)
JoinStrings(sep, strings) ==
    IF strings = <<>> THEN <<>>
    ELSE IF Len(strings) = 1 THEN Head(strings)
    ELSE Head(strings) \o sep \o JoinStrings(sep, Tail(strings))

\* sep.join(*args): str.join takes exactly one argument, an iterable of str.
\* A str argument is iterated character by character.
StrJoin(sep, args) ==
    IF Len(args) # 1
    THEN Raise("TypeError")
    ELSE Returned(JoinStrings(sep, [k \in 1..Len(args[1]) |-> <<args[1][k]>>]))

\* s.rfind(ch): the highest 0-based index of ch in s, -1 when absent.
RFind(s, ch) ==
    IF \E k \in 1..Len(s) : s[k] = ch
    THEN (CHOOSE k \in 1..Len(s) : s[k] = ch /\ \A m \in (k + 1)..Len(s) : s[m] # ch) - 1
    ELSE -1

\* self.__class__(items): the Type made of a (cotype, subtype, parameters) tuple.
TypeOfTuple(t) == Type(t.items[1], t.items[2], t.items[3])

\* Type.push(self, subtype)
Push(slf, subtype) ==
    LET cotype == slf.cotype
        ssubtype == slf.subtype
        remainder == List(<<slf.parameters>>)
        joined == StrJoin(<<"+">>, <<ssubtype, subtype>>)
    IN  IF joined.kind = "raise" THEN joined
        ELSE LET sum == TupleAdd(Tuple(<<cotype, joined.value>>), remainder)
             IN  IF sum.kind = "raise" THEN sum
                 ELSE Returned(TypeOfTuple(sum.value))

\* Type.pop(self)
Pop(slf) ==
    LET cotype == slf.cotype
        ssubtype == slf.subtype
        remainder == List(<<slf.parameters>>)
        index == RFind(ssubtype, "+")
    IN  IF index = -1 THEN Returned(slf)
        ELSE LET sum == TupleAdd(Tuple(<<cotype, SubSeq(ssubtype, 1, index)>>), remainder)
             IN  IF sum.kind = "raise" THEN sum
                 ELSE Returned(TypeOfTuple(sum.value))

----------------------------------------------------------------------------
(* bytes values and the q parameter *)

Bytes(s) == [kind |-> "bytes", v |-> s]

Digits == {"0", "1", "2", "3", "4", "5", "6", "7", "8", "9"}

DigitValue(c) ==
    CASE c = "0" -> 0 [] c = "1" -> 1 [] c = "2" -> 2 [] c = "3" -> 3 [] c = "4" -> 4
      [] c = "5" -> 5 [] c = "6" -> 6 [] c = "7" -> 7 [] c = "8" -> 8 [] c = "9" -> 9

RECURSIVE Numeral(_)
Numeral(s) ==
    IF s = <<>> THEN 0
    ELSE 10 * Numeral(SubSeq(s, 1, Len(s) - 1)) + DigitValue(s[Len(s)])

\* float(text) for a plain decimal of at most three fraction digits,
\* [sign] digits [. digits], as a number of thousandths; anything else raises
\* ValueError.
Float(text) ==
    LET signed == text # <<>> /\ Head(text) \in {"-", "+"}
        body == IF signed THEN Tail(text) ELSE text
        dots == {k \in 1..Len(body) : body[k] = "."}
        dot == IF dots = {} THEN Len(body) + 1 ELSE CHOOSE k \in dots : TRUE
        whole == SubSeq(body, 1, dot - 1)
        frac == SubSeq(body, dot + 1, Len(body))
        wellformed ==
            /\ Cardinality(dots) <= 1
            /\ Len(whole) + Len(frac) >= 1
            /\ Len(frac) <= 3
            /\ \A k \in 1..Len(whole) : whole[k] \in Digits
            /\ \A k \in 1..Len(frac) : frac[k] \in Digits
        padded == frac \o [k \in 1..(3 - Len(frac)) |-> "0"]
        magnitude == Numeral(whole) * 1000 + Numeral(padded)
    IN  IF ~wellformed THEN Raise("ValueError")
        ELSE Returned(IF signed /\ Head(text) = "-" THEN -magnitude ELSE magnitude)

\* Magnitudes (in thousandths, up to 2.0) whose double, multiplied by 100.0,
\* rounds to just below the whole number the decimal product would be:
\* 0.29 * 100 is 28.999999999999996.
InexactBelow == {290, 570, 580, 1130, 1140, 1150, 1160}

\* int(f * 100) for the float f of m thousandths: truncation toward zero.
PercentOfFloat(m) ==
    LET magnitude == IF m < 0 THEN -m ELSE m
        truncated == (magnitude * 100) \div 1000 - (IF magnitude \in InexactBelow THEN 1 ELSE 0)
    IN  IF m < 0 THEN -truncated ELSE truncated

\* int(float(quality or b'1.0') * 100)
Percent(qual) ==
    LET text == IF qual = None \/ qual.v = <<>> THEN <<"1", ".", "0">> ELSE qual.v
        f == Float(text)
    IN  IF f.kind = "raise" THEN f ELSE Returned(PercentOfFloat(f.value))

----------------------------------------------------------------------------
(* class Range(tuple): parsing *)

\* tools.decode_parameters: the (name, value) pairs, decoded, in order.
decode_parameters(pairs) ==
    [k \in 1..Len(pairs) |-> <<pairs[k][1], pairs[k][2].v>>]

\* b'/' in name
HasSlash(name) == \E k \in 1..Len(name) : name[k] = "/"

\* name.split(b'/')
RECURSIVE SplitSlash(_)
SplitSlash(name) ==
    IF ~HasSlash(name) THEN <<name>>
    ELSE LET k == CHOOSE k \in 1..Len(name) :
                    name[k] = "/" /\ \A m \in 1..(k - 1) : name[m] # "/"
         IN  <<SubSeq(name, 1, k - 1)>> \o SplitSlash(SubSeq(name, k + 1, Len(name)))

\* params or None
OrNone(params) == IF params = <<>> THEN None ELSE List(params)

\* The loop of Range.split over the tokens after the first, with its locals;
\* a token is (name, value) with value None when the token has no '='.
RECURSIVE SplitLoop(_, _, _, _)
SplitLoop(parts, mtype, qual, params) ==
    IF parts = <<>>
    THEN <<<<SplitSlash(mtype), qual, OrNone(params)>>>>
    ELSE LET x == Head(parts) IN
         IF x[2] = None /\ HasSlash(x[1])
         THEN <<<<SplitSlash(mtype), qual, OrNone(params)>>>>
                  \o SplitLoop(Tail(parts), x[1], None, <<>>)
         ELSE IF x[1] = <<"q">>
              THEN SplitLoop(Tail(parts), mtype, x[2], params)
              ELSE SplitLoop(Tail(parts), mtype, qual, Append(params, x))

\* Range.split(media_range), over the tokens of the series
split(parts) == SplitLoop(Tail(parts), Head(parts)[1], None, <<>>)

\* operator.itemgetter(0)
skey(entry) == entry[1]

RECURSIVE Insort(_, _)
Insort(sorted, e) ==
    IF sorted = <<>> THEN <<e>>
    ELSE IF skey(Head(sorted)) <= skey(e)
         THEN <<Head(sorted)>> \o Insort(Tail(sorted), e)
         ELSE <<e>> \o sorted

\* A stable ascending sort by skey: equal keys keep their order.
RECURSIVE StableSort(_)
StableSort(s) ==
    IF s = <<>> THEN <<>>
    ELSE Insort(StableSort(SubSeq(s, 1, Len(s) - 1)), s[Len(s)])

\* Sorting ascending and reversing the outcome, which turns ties around.
SortReverse_TiesReversed(s) == Reverse(StableSort(s))

\* l.sort(key=skey, reverse=True): the list is reversed, sorted by a stable
\* ascending sort and reversed again.
SortReverse(s) == Reverse(StableSort(Reverse(s)))

\* One pass of the loop of Range.from_bytes: the (percent, Type) pair of a
\* triple of Range.split, or the exception the pass raises.
Entry(triple) ==
    LET tpair == triple[1]
        percent == Percent(triple[2])
        parameters == decode_parameters(IF triple[3] = None THEN <<>> ELSE triple[3].items)
    IN  IF Len(tpair) # 2 THEN Raise("ValueError")
        ELSE IF percent.kind = "raise" THEN percent
        ELSE Returned(<<percent.value,
                        Type(tpair[1], tpair[2], {parameters[k] : k \in 1..Len(parameters)})>>)

\* Range.from_bytes(data): the list l as appended to, before l.sort, or the
\* exception of the first pass that raises.
Collect(parts) ==
    LET triples == split(parts)
        entries == [k \in 1..Len(triples) |-> Entry(triples[k])]
        raising == {k \in 1..Len(entries) : entries[k].kind = "raise"}
    IN  IF raising # {}
        THEN entries[CHOOSE k \in raising : \A m \in raising : k <= m]
        ELSE Returned([k \in 1..Len(entries) |-> entries[k].value])

----------------------------------------------------------------------------
(* Containment specification: __contains__ evaluated over three Types. *)

Cotypes == {STAR, <<"t">>, <<"i">>}
Subtypes == {STAR, <<"h">>, <<"p">>}
ParameterPairs == {<<"level", "1">>, <<"charset", "u">>}
TypeUniverse ==
    {Type(ct, st, ps) : ct \in Cotypes, st \in Subtypes, ps \in SUBSET ParameterPairs}

NoQuery ==
    /\ range = <<>> /\ available = <<>> /\ xi = 0 /\ ei = 0
    /\ current = None /\ position = None /\ quality = 0

InitContains ==
    /\ pc = "contains"
    /\ ops \in TypeUniverse \X TypeUniverse \X TypeUniverse
    /\ res = <<>>
    /\ self = None /\ arg = <<>> /\ ret = None
    /\ data = <<>> /\ l = <<>>
    /\ NoQuery

\* a in b, b in c, a in c for ops = (a, b, c); x in y is y.__contains__(x).
EvalContains ==
    /\ pc = "contains"
    /\ res' = <<Contains(ops[2], ops[1]), Contains(ops[3], ops[2]), Contains(ops[3], ops[1])>>
    /\ pc' = "evaluated"
    /\ UNCHANGED <<ops, ret>>
    /\ UNCHANGED <<typeVars, parseVars, queryVars>>

NextContains == EvalContains

SpecContains == InitContains /\ [][NextContains]_vars

----------------------------------------------------------------------------
(* Claims about Type.__contains__ *)

\* The three conditions of the containment rule, for `other in slf`.
ContainmentRule(slf, other) ==
    /\ (slf.cotype = STAR \/ slf.cotype = other.cotype)
    /\ (slf.subtype = STAR \/ slf.subtype = other.subtype)
    /\ (slf.parameters = {}
          \/ (other.parameters # {} /\ other.parameters \subseteq slf.parameters))

\* C1: `other in self` is True exactly when the cotype matches or is '*', the
\* subtype matches or is '*', and self.parameters is empty or other.parameters
\* is a non-empty subset of self.parameters.
C1_ContainsIsConjunction ==
    pc = "evaluated" =>
        /\ res[1] = ContainmentRule(ops[2], ops[1])
        /\ res[2] = ContainmentRule(ops[3], ops[2])
        /\ res[3] = ContainmentRule(ops[3], ops[1])

TextHtml == Type(<<"t">>, <<"h">>, {})
TextHtmlLevel1 == Type(<<"t">>, <<"h">>, {<<"level", "1">>})

\* text/html;level=1 in text/html is True, text/html in text/html;level=1 is False.
C1_Witness ==
    /\ pc = "evaluated"
    /\ ops = <<TextHtmlLevel1, TextHtml, TextHtmlLevel1>>
    /\ res = <<TRUE, FALSE, TRUE>>

\* C9 as stated: containment is not transitive; among the Types it is
\* evaluated over, some a, b, c have a in b and b in c but not a in c.
C9_NonTransitiveTripleExists ==
    pc = "evaluated" =>
        \E a \in TypeUniverse, b \in TypeUniverse, c \in TypeUniverse :
            Contains(b, a) /\ Contains(c, b) /\ ~Contains(c, a)

\* C9 amended: containment is transitive; whenever a in b and b in c hold,
\* a in c holds.
C9_ContainsTransitive ==
    pc = "evaluated" => (res[1] /\ res[2] => res[3])

\* A chain over three different Types with parameters and a wildcard.
C9_Witness ==
    /\ pc = "evaluated"
    /\ ops[1] # ops[2] /\ ops[2] # ops[3]
    /\ ops[1].parameters # {} /\ ops[3].parameters = ParameterPairs
    /\ ops[3].subtype = STAR /\ ops[1].subtype # STAR
    /\ res[1] /\ res[2] /\ res[3]

----------------------------------------------------------------------------
(* Subtype composition specification: push and pop on one Type. *)

MaxSubtypeLen == 3
MaxSegmentLen == 2

SubtypeChars == {"r", "x", "+"}

Strings(chars, n) == UNION {[1..k -> chars] : k \in 0..n}

Receivers ==
    {Type(<<"a">>, st, ps) : st \in Strings(SubtypeChars, MaxSubtypeLen),
                             ps \in {{}, {<<"level", "1">>}}}

InitType ==
    /\ pc = "type"
    /\ self \in Receivers
    /\ arg = <<>>
    /\ ret = None
    /\ ops = <<>> /\ res = <<>>
    /\ data = <<>> /\ l = <<>>
    /\ NoQuery

CallPush ==
    /\ pc = "type"
    /\ \E segment \in Strings(SubtypeChars, MaxSegmentLen) :
        /\ arg' = segment
        /\ ret' = Push(self, segment)
    /\ pc' = "pushed"
    /\ UNCHANGED <<self, containsVars, parseVars, queryVars>>

CallPop ==
    /\ pc = "type"
    /\ ret' = Pop(self)
    /\ pc' = "popped"
    /\ UNCHANGED <<self, arg, containsVars, parseVars, queryVars>>

NextType == CallPush \/ CallPop

SpecType == InitType /\ [][NextType]_vars

\* C5: push(segment) returns a new Type whose subtype is the receiver's
\* subtype, a '+' and the segment, with the receiver's cotype and parameters.
C5_PushAppendsSegment ==
    pc = "pushed" =>
        ret = Returned(Type(self.cotype, self.subtype \o <<"+">> \o arg, self.parameters))

\* C6: pop() returns the receiver when its subtype has no '+', and otherwise
\* the Type whose subtype is everything before the last '+', with the
\* receiver's cotype and parameters.
C6_PopRemovesLastSegment ==
    pc = "popped" =>
        IF \A k \in 1..Len(self.subtype) : self.subtype[k] # "+"
        THEN ret = Returned(self)
        ELSE \E k \in 1..Len(self.subtype) :
                /\ self.subtype[k] = "+"
                /\ \A m \in (k + 1)..Len(self.subtype) : self.subtype[m] # "+"
                /\ ret = Returned(Type(self.cotype, SubSeq(self.subtype, 1, k - 1),
                                       self.parameters))

----------------------------------------------------------------------------
(* Range parsing specification: Range.from_bytes on one media range. *)

MaxGroups == 3

TypeTokens == {<<"t", "/", "h">>, <<"t", "/", "p">>}

\* Texts of the q parameter: empty, 0.9, 1.5, -0.5, 0.29 and a non-number.
QTexts ==
    {<<>>, <<"0", ".", "9">>, <<"1", ".", "5">>, <<"-", "0", ".", "5">>,
     <<"0", ".", "2", "9">>, <<"x">>}

QToken(text) == << <<(<<"q">>), Bytes(text)>> >>

QTokens == {<<>>} \cup {QToken(t) : t \in QTexts}

LevelToken == << <<(<<"l">>), Bytes(<<"1">>)>> >>

\* The tokens of one media type of a range: the type, then q, then (for the
\* types without q or with q=0.9) a parameter.
Groups ==
    {<< <<t, None>> >> \o q : t \in TypeTokens, q \in QTokens}
    \cup {<< <<t, None>> >> \o q \o LevelToken :
            t \in TypeTokens, q \in {<<>>, QToken(<<"0", ".", "9">>)}}

RECURSIVE Flatten(_)
Flatten(ss) == IF ss = <<>> THEN <<>> ELSE Head(ss) \o Flatten(Tail(ss))

MediaRanges == {Flatten(gs) : gs \in UNION {[1..n -> Groups] : n \in 1..MaxGroups}}

InitParse ==
    /\ pc = "parse"
    /\ data \in MediaRanges
    /\ l = <<>>
    /\ ret = None
    /\ self = None /\ arg = <<>>
    /\ ops = <<>> /\ res = <<>>
    /\ NoQuery

\* Range.from_bytes(data)
from_bytes ==
    /\ pc = "parse"
    /\ LET collected == Collect(data) IN
        IF collected.kind = "raise"
        THEN /\ l' = l
             /\ ret' = collected
        ELSE /\ l' = collected.value
             /\ ret' = Returned(SortReverse(collected.value))
    /\ pc' = "parsed"
    /\ UNCHANGED <<data, typeVars, containsVars, queryVars>>

NextParse == from_bytes

SpecParse == InitParse /\ [][NextParse]_vars

WithQuality(s, q) == LET Has(e) == skey(e) = q IN SelectSeq(s, Has)

\* C3: a Range built by from_bytes is ordered by quality descending, and the
\* entries of one quality are in the order in which they were parsed.
C3_SortedDescendingStable ==
    (pc = "parsed" /\ ret.kind = "return") =>
        /\ Len(ret.value) = Len(l)
        /\ \A k \in 1..(Len(ret.value) - 1) : skey(ret.value[k]) >= skey(ret.value[k + 1])
        /\ \A k \in 1..Len(l) : WithQuality(ret.value, skey(l[k])) = WithQuality(l, skey(l[k]))

\* Three entries parsed as 90, 100, 90 with two different entries at 90.
C3_Witness ==
    /\ pc = "parsed" /\ ret.kind = "return"
    /\ Len(l) = 3
    /\ skey(l[1]) = 90 /\ skey(l[2]) = 100 /\ skey(l[3]) = 90
    /\ l[1] # l[3]
    /\ ret.value = <<l[2], l[1], l[3]>>

\* C7: every entry of a Range built by from_bytes has a quality in 0..100.
C7_QualityWithinPercent ==
    (pc = "parsed" /\ ret.kind = "return") =>
        \A k \in 1..Len(ret.value) : skey(ret.value[k]) \in 0..100

----------------------------------------------------------------------------
(* Negotiation specification: Range.query, one pass of the inner loop per  *)
(* step.                                                                   *)

MaxEntries == 2
MaxAvailable == 2

\* Qualities from_bytes produces: q=-0.5, q=0, q=0.5 and q=1.0 (or no q).
Qualities == {-50, 0, 50, 100}

TextPlain == Type(<<"t">>, <<"p">>, {})
ImageGif == Type(<<"i">>, <<"g">>, {})

PatternTypes == {any_type, TextHtml, TextHtmlLevel1, TextPlain}
AvailableTypes == {TextHtml, TextHtmlLevel1, ImageGif}

\* The Ranges of at most MaxEntries entries, in the order from_bytes leaves.
Ranges ==
    {r \in UNION {[1..n -> Qualities \X PatternTypes] : n \in 0..MaxEntries} :
        \A k \in 1..(Len(r) - 1) : r[k][1] >= r[k + 1][1]}

InitQuery ==
    /\ pc = "scan"
    /\ range \in Ranges
    /\ available \in UNION {[1..n -> AvailableTypes] : n \in 0..MaxAvailable}
    /\ xi = 1 /\ ei = 1
    /\ current = None /\ position = None /\ quality = 0
    /\ ret = None
    /\ self = None /\ arg = <<>>
    /\ ops = <<>> /\ res = <<>>
    /\ data = <<>> /\ l = <<>>

\* x in mt or mt in x
Matches(x, mt) == Contains(mt, x) \/ Contains(x, mt)

InLoop == pc = "scan" /\ xi <= Len(available) /\ ei <= Len(range)

QueryFixed == <<range, available, typeVars, containsVars, parseVars>>

\* The entry does not match x: on to the next entry.
QueryNoMatch ==
    /\ InLoop
    /\ ~Matches(available[xi], range[ei][2])
    /\ ei' = ei + 1
    /\ UNCHANGED <<pc, ret, xi, current, position, quality, QueryFixed>>

\* if q > quality, leaving position as it was.
QueryHigher_PositionKept ==
    /\ InLoop
    /\ Matches(available[xi], range[ei][2])
    /\ range[ei][1] > quality
    /\ current' = available[xi]
    /\ quality' = range[ei][1]
    /\ ei' = ei + 1
    /\ UNCHANGED <<pc, ret, xi, position, QueryFixed>>

\* if q > quality
QueryHigher ==
    /\ InLoop
    /\ Matches(available[xi], range[ei][2])
    /\ range[ei][1] > quality
    /\ current' = available[xi]
    /\ position' = range[ei][2]
    /\ quality' = range[ei][1]
    /\ ei' = ei + 1
    /\ UNCHANGED <<pc, ret, xi, QueryFixed>>

\* elif q == quality: `mt in position` raises TypeError while position is None.
QueryEqual ==
    /\ InLoop
    /\ Matches(available[xi], range[ei][2])
    /\ range[ei][1] = quality
    /\ IF position = None
       THEN /\ pc' = "done"
            /\ ret' = Raise("TypeError")
            /\ UNCHANGED <<xi, ei, current, position, quality>>
       ELSE /\ IF Contains(position, range[ei][2])
               THEN /\ current' = available[xi]
                    /\ position' = range[ei][2]
               ELSE UNCHANGED <<current, position>>
            /\ ei' = ei + 1
            /\ UNCHANGED <<pc, ret, xi, quality>>
    /\ UNCHANGED QueryFixed

\* else: break out of the inner loop once a match is held.
QueryLower ==
    /\ InLoop
    /\ Matches(available[xi], range[ei][2])
    /\ range[ei][1] < quality
    /\ IF current # None /\ range[ei][1] < quality
       THEN xi' = xi + 1 /\ ei' = 1
       ELSE xi' = xi /\ ei' = ei + 1
    /\ UNCHANGED <<pc, ret, current, position, quality, QueryFixed>>

\* The inner loop is exhausted: the next x of available.
QueryNextAvailable ==
    /\ pc = "scan" /\ xi <= Len(available) /\ ei > Len(range)
    /\ xi' = xi + 1
    /\ ei' = 1
    /\ UNCHANGED <<pc, ret, current, position, quality, QueryFixed>>

\* The outer loop is exhausted: return None or (current, position, quality).
QueryReturn ==
    /\ pc = "scan" /\ xi > Len(available)
    /\ ret' = IF current = None
              THEN Returned(None)
              ELSE Returned(Tuple(<<current, position, quality>>))
    /\ pc' = "done"
    /\ UNCHANGED <<xi, ei, current, position, quality, QueryFixed>>

NextQuery ==
    \/ QueryNoMatch
    \/ QueryHigher
    \/ QueryEqual
    \/ QueryLower
    \/ QueryNextAvailable
    \/ QueryReturn

SpecQuery == InitQuery /\ [][NextQuery]_vars

----------------------------------------------------------------------------
(* Claims about Range.query *)

\* The (index of candidate, index of entry) pairs that match.
MatchingPairs ==
    {m \in (1..Len(available)) \X (1..Len(range)) :
        Matches(available[m[1]], range[m[2]][2])}

BestQuality ==
    CHOOSE q \in {range[m[2]][1] : m \in MatchingPairs} :
        \A m \in MatchingPairs : range[m[2]][1] <= q

\* C2: query never fails; the scan ends by returning a triple or None.
C2_QueryNeverRaises ==
    pc = "done" => ret.kind = "return"

\* C4: query returns None exactly when no candidate matches any entry, and
\* otherwise a triple whose quality is the highest quality of a matching
\* (candidate, entry) pair.
C4_QueryReturnsBest ==
    pc = "done" =>
        /\ ret.kind = "return"
        /\ (ret.value = None) <=> (MatchingPairs = {})
        /\ ret.value # None => ret.value.items[3] = BestQuality

\* C8, the rule: at the quality of the running best, a match replaces the
\* running best only when the running best's pattern contains its pattern.
ReplacedOnlyByMoreSpecific ==
    (current # None /\ quality' = quality /\ <<current, position>>' # <<current, position>>)
        => Contains(position, position')

\* C8, the case: two different candidates that both match one and the same
\* entry and no other; the triple returned holds the candidate supplied first.
FirstOfTwoOnOneEntry ==
    (/\ pc = "done" /\ ret.kind = "return"
     /\ Len(available) = 2 /\ available[1] # available[2]
     /\ \E k \in 1..Len(range) : MatchingPairs = {<<1, k>>, <<2, k>>})
        => (ret.value # None => ret.value.items[1] = available[1])

\* C8: among matches of the best quality the first met in scan order is
\* returned, a later one taking its place only when its pattern is more
\* specific; two candidates matching one same entry give the first of them.
C8_FirstMatchWinsTies ==
    [][ReplacedOnlyByMoreSpecific]_vars /\ []FirstOfTwoOnOneEntry

\* The running best, once set, is a supplied candidate with an entry of the
\* range that it matches; the triple returned is the running best.
RunningBestConsistent ==
    /\ (current = None) <=> (position = None)
    /\ current # None =>
        /\ \E i \in 1..Len(available) : available[i] = current
        /\ \E k \in 1..Len(range) : range[k] = <<quality, position>>
        /\ Matches(current, position)
    /\ (pc = "done" /\ ret.kind = "return" /\ ret.value # None) =>
        (current # None /\ ret.value = Tuple(<<current, position, quality>>))

\* A step changes candidate and pattern together, to the pair under the
\* scan, and never lowers the quality.
RunningBestStep ==
    /\ quality' >= quality
    /\ (current' # current \/ position' # position) =>
        (current' = available[xi] /\ position' = range[ei][2])

\* C10: after every step of the scan and for the value returned, the
\* candidate is a supplied one, (quality, pattern) is an entry, the two
\* match, both are updated together and the quality never decreases.
C10_ResultConsistent ==
    []RunningBestConsistent /\ [][RunningBestStep]_vars

\* image/gif takes */* first, then text/html;level=1 takes text/html at the
\* same quality.
C10_Witness ==
    /\ pc = "done"
    /\ range = <<<<100, any_type>>, <<100, TextHtml>>>>
    /\ available = <<ImageGif, TextHtmlLevel1>>
    /\ ret = Returned(Tuple(<<TextHtmlLevel1, TextHtml, 100>>))

====
